---- MODULE Spec2Model ----
(***************************************************************************)
(* State-machine model of sbi's MCMCPosterior                              *)
(* (sbi/inference/posteriors/mcmc_posterior.py) and PosteriorPotential     *)
(* (sbi/inference/potentials/posterior_based_potential.py).                *)
(*                                                                         *)
(* A chain state (a parameter vector in unconstrained space) is modelled   *)
(* by its provenance: which sample call produced it, in which chain, and   *)
(* at which position of that chain's trajectory.  Tensors are sequences:   *)
(* a (chains x time x dim) tensor is a sequence of per-chain sequences of  *)
(* chain states, a (rows x dim) tensor is a sequence of chain states.      *)
(***************************************************************************)
EXTENDS Integers, Sequences, FiniteSets, TLC

\* ------------------------------------------------------------------ bounds
MaxThin == 2
MaxWarmup == 1
MaxChains == 3
MaxExtent == 2
MaxCalls == 2
MaxInitSamples == 2
MaxBatch == 3
dim == 2

\* ------------------------------------------------------------- value sets
None == "None"
Unset == <<>>

SupportedMethods == {"slice_np", "slice_np_vectorized", "hmc", "nuts", "slice"}
Methods == SupportedMethods \cup {"slice_np_custom", "rejection"}
InitStrategies == {"prior", "sir", "latest_sample", "resample"}
Obs == {"x_default", "x_other"}
default_x == "x_default"
\* the x arguments passed to sample and map: None, or an observation that is
\* not the default one
XArgs == {None, "x_other"}
\* the arguments passed to set_mcmc_method
SetterMethods == {"slice_np_vectorized", "hmc"}

\* the sample_shape arguments: the empty tuple, one-dimensional and
\* two-dimensional shapes, zero extents included
Extents == 0..MaxExtent
Shapes == {<<>>} \cup {<<a>> : a \in Extents} \cup {<<a, b>> : a, b \in Extents}

\* ---------------------------------------------------------------- state
VARIABLES
    constructed,        \* "new", "ok", or the exception __init__ raised
    method,             \* self.method
    thin,               \* self.thin
    warmup_steps,       \* self.warmup_steps
    num_chains,         \* self.num_chains
    init_strategy,      \* self.init_strategy
    _mcmc_method,       \* self._mcmc_method
    _mcmc_init_params,  \* self._mcmc_init_params
    x_o,                \* self.potential_fn.x_o
    map_,               \* self.map_
    calls,              \* number of sample calls made so far
    lastSample,         \* what the sample call of the most recent operation did
    lastMap,            \* what the map call of the most recent operation did
    lastPotential       \* the most recent PosteriorPotential call and its result

vars == <<constructed, method, thin, warmup_steps, num_chains, init_strategy,
          _mcmc_method, _mcmc_init_params, x_o, map_, calls,
          lastSample, lastMap, lastPotential>>

config == <<method, thin, warmup_steps, num_chains, init_strategy>>

\* ------------------------------------------------------- tensor helpers
\* torch.Size(sample_shape).numel()
RECURSIVE numel(_)
numel(shape) == IF shape = <<>> THEN 1 ELSE Head(shape) * numel(Tail(shape))

\* math.ceil(a / b) for b >= 1
ceil(a, b) == (a + b - 1) \div b

\* seq[n:]
DropFirst(seq, n) == SubSeq(seq, n + 1, Len(seq))

\* seq[::k]
EveryNth(seq, k) == [j \in 1..ceil(Len(seq), k) |-> seq[(j - 1) * k + 1]]

\* seq[:n]
TakeFirst(seq, n) == SubSeq(seq, 1, IF n < Len(seq) THEN n ELSE Len(seq))

\* a flattening that walks time first: row t of every chain before row t+1
Flatten_interleaved(chainsSeq) ==
    IF chainsSeq = <<>> THEN <<>>
    ELSE [i \in 1..(Len(chainsSeq) * Len(chainsSeq[1])) |->
             chainsSeq[((i - 1) % Len(chainsSeq)) + 1][((i - 1) \div Len(chainsSeq)) + 1]]

\* tensor.reshape(-1, dim) of a (chains x time x dim) tensor: chain-major rows
RECURSIVE Flatten(_)
Flatten(chainsSeq) ==
    IF chainsSeq = <<>> THEN <<>> ELSE Head(chainsSeq) \o Flatten(Tail(chainsSeq))

\* reshape that ignores the requested shape: tensor.reshape((-1, dim))
reshape_flat(elements, shape) == << elements \div dim, dim >>

\* tensor.reshape((*shape, -1)) of a tensor with `elements` entries: the
\* resulting shape, or <<-1>> when torch raises RuntimeError (the inferred
\* dimension is ambiguous or the element count is not divisible).
reshape(elements, shape) ==
    LET known == numel(shape)
    IN  IF known = 0 THEN <<-1>>
        ELSE IF elements % known # 0 THEN <<-1>>
        ELSE shape \o << elements \div known >>

ChainState(src, k, c, p) == [src |-> src, call |-> k, chain |-> c, pos |-> p]

\* ------------------------------------------------- collaborators of sample
\* NeuralPosterior._x_else_default_x
_x_else_default_x(x) == IF x # None THEN x ELSE default_x

\* default value of the init_strategy parameter of _build_mcmc_init_fn
init_strategy_default == "prior"

\* The initialisation function _build_mcmc_init_fn returns for a strategy, or
\* the exception it raises.  Reading self._mcmc_init_params before any
\* sampling run has assigned it raises AttributeError.
_build_mcmc_init_fn(strategy, cache) ==
    IF strategy = "prior" THEN "prior_init"
    ELSE IF strategy = "sir" THEN "sir"
    ELSE IF strategy = "latest_sample"
         THEN IF cache = Unset THEN "AttributeError" ELSE "IterateParameters"
    ELSE "NotImplementedError"

\* One call init_fn(): the c-th call made on the function built for call k.
\* IterateParameters cycles through the rows of the saved parameters.
init_fn(kind, k, c, cache) ==
    IF kind = "prior_init" THEN ChainState("prior", k, c, 0)
    ELSE IF kind = "sir" THEN ChainState("sir", k, c, 0)
    ELSE cache[((c - 1) % Len(cache)) + 1]

\* SliceSampler.gen(n) on chain c of call k, on a sampler that has already
\* made `done` transitions: n draws, `thin_` transitions apart.
SliceSampler_gen(k, c, done, n, thin_) ==
    [j \in 1..n |-> ChainState("chain", k, c, done + j * thin_)]

\* SliceSamplerVectorized.run(T): the T-step trajectory of chain c, step
\* positions 0 .. T-1.
SliceSamplerVectorized_run(k, c, T) ==
    [p \in 1..T |-> ChainState("chain", k, c, p - 1)]

\* pyro MCMC(num_samples=m, num_chains=nc).run(); get_samples(): m draws per
\* chain after warmup, chains concatenated.
MCMC_get_samples(k, nc, m) ==
    Flatten([c \in 1..nc |-> [j \in 1..m |-> ChainState("chain", k, c, j)]])

\* ------------------------------------------------------- sampling backends
Backend(outcome, cache, steps, kept, available, rows) ==
    [outcome |-> outcome, cache |-> cache, steps |-> steps, kept |-> kept,
     available |-> available, rows |-> rows]

\* warmup length that is not scaled by the thinning factor
warmup_unscaled(warmup, thin_) == warmup

\* number of warmup steps the vectorized sampler runs and then discards
warmup_(warmup, thin_) == warmup * thin_

\* number of post-warmup steps the vectorized sampler runs per chain
num_samples_(num_samples, thin_, nc) == ceil(num_samples * thin_, nc)

\* One chain of _slice_np_mcmc: the number of steps the chain is run for and
\* the draws of it that are kept (one row of the chains x time x dim tensor).
slice_np_chain(num_samples, nc, thin_, warmup, vectorized, k, c) ==
    IF ~vectorized
    THEN LET done == IF warmup > 0 THEN Len(SliceSampler_gen(k, c, 0, warmup, thin_)) * thin_
                     ELSE 0
             n    == ceil(num_samples, nc)
         IN  [steps |-> done + n * thin_,
              kept  |-> SliceSampler_gen(k, c, done, n, thin_)]
    ELSE LET run == SliceSamplerVectorized_run(k, c,
                        warmup_(warmup, thin_) + num_samples_(num_samples, thin_, nc))
         IN  [steps |-> Len(run),
              kept  |-> EveryNth(DropFirst(run, warmup_(warmup, thin_)), thin_)]

\* the tail of _slice_np_mcmc, from the (chains x time x dim) tensor on: save
\* the last draw of every chain, flatten, truncate, assert
slice_np_result(chains, num_samples, cache) ==
    LET nc   == Len(chains)
        flat == Flatten([c \in 1..nc |-> chains[c].kept])
        rows == TakeFirst(flat, num_samples)
    IN  IF \E c \in 1..nc : Len(chains[c].kept) = 0
        THEN Backend("IndexError", cache, chains[1].steps,
                     [c \in 1..nc |-> chains[c].kept], Len(flat), <<>>)
        ELSE IF Len(rows) # num_samples
        THEN Backend("AssertionError",
                     [c \in 1..nc |-> chains[c].kept[Len(chains[c].kept)]],
                     chains[1].steps, [c \in 1..nc |-> chains[c].kept], Len(flat), <<>>)
        ELSE Backend("ok",
                     [c \in 1..nc |-> chains[c].kept[Len(chains[c].kept)]],
                     chains[1].steps, [c \in 1..nc |-> chains[c].kept], Len(flat), rows)

\* a slice sampling run that does not save the last draws
_slice_np_mcmc_nosave(num_samples, initial_params, thin_, warmup, vectorized, k, cache) ==
    [slice_np_result(
        [c \in 1..Len(initial_params) |->
            slice_np_chain(num_samples, Len(initial_params), thin_, warmup, vectorized, k, c)],
        num_samples, cache) EXCEPT !.cache = cache]

_slice_np_mcmc(num_samples, initial_params, thin_, warmup, vectorized, k, cache) ==
    slice_np_result(
        [c \in 1..Len(initial_params) |->
            slice_np_chain(num_samples, Len(initial_params), thin_, warmup, vectorized, k, c)],
        num_samples, cache)

\* draws per chain without the over-provisioning term
pyro_num_samples_floor(num_samples, thin_, nc) == (thin_ * num_samples) \div nc

\* number of draws per chain requested from pyro
pyro_num_samples(num_samples, thin_, nc) == (thin_ * num_samples) \div nc + nc

\* the tail of _pyro_mcmc, from the flattened draws on: thin, truncate, assert
pyro_result(samples, steps, num_samples, thin_, cache) ==
    LET thinned == EveryNth(samples, thin_)
        rows    == TakeFirst(thinned, num_samples)
    IN  IF Len(rows) # num_samples
        THEN Backend("AssertionError", cache, steps, <<thinned>>, Len(thinned), <<>>)
        ELSE Backend("ok", cache, steps, <<thinned>>, Len(thinned), rows)

_pyro_mcmc(num_samples, initial_params, mcmc_method, thin_, warmup, nc, k, cache) ==
    pyro_result(MCMC_get_samples(k, nc, pyro_num_samples(num_samples, thin_, nc)),
                warmup + pyro_num_samples(num_samples, thin_, nc),
                num_samples, thin_, cache)

\* --------------------------------------------------------- MCMCPosterior
\* the branch of sample's if/elif/else that a method identifier selects
dispatch(m) ==
    IF m \in {"slice_np", "slice_np_vectorized"} THEN "_slice_np_mcmc"
    ELSE IF m \in {"hmc", "nuts", "slice"} THEN "_pyro_mcmc"
    ELSE "NameError"

NoSample ==
    [outcome |-> "none", sample_shape |-> <<>>,
     init |-> "none", initial_params |-> <<>>, backend |-> "none",
     num_samples |-> 0, steps |-> 0, kept |-> <<>>, available |-> 0,
     rows |-> <<>>, shape |-> <<>>, call |-> 0]

Outcome(bound, cache, info) == [x_o |-> bound, cache |-> cache, info |-> info]

\* sample, lines 204-205: map the backend's rows back and reshape them
sample_return(bound, info, r) ==
    IF r.outcome # "ok"
    THEN Outcome(bound, r.cache,
             [info EXCEPT !.outcome = r.outcome, !.steps = r.steps, !.kept = r.kept,
                          !.available = r.available])
    ELSE IF reshape(Len(r.rows) * dim, info.sample_shape) = <<-1>>
    THEN Outcome(bound, r.cache,
             [info EXCEPT !.outcome = "RuntimeError", !.steps = r.steps, !.kept = r.kept,
                          !.available = r.available])
    ELSE Outcome(bound, r.cache,
             [info EXCEPT !.outcome = "ok", !.steps = r.steps, !.kept = r.kept,
                          !.available = r.available, !.rows = r.rows,
                          !.shape = reshape(Len(r.rows) * dim, info.sample_shape)])

\* sample, lines 176-202: run the backend self.method selects
sample_dispatch(bound, info, k, cache) ==
    IF dispatch(method) = "NameError"
    THEN Outcome(bound, cache, [info EXCEPT !.outcome = "NameError"])
    ELSE sample_return(bound, [info EXCEPT !.backend = method],
             IF dispatch(method) = "_slice_np_mcmc"
             THEN _slice_np_mcmc(info.num_samples, info.initial_params, thin, warmup_steps,
                                 method = "slice_np_vectorized", k, cache)
             ELSE _pyro_mcmc(info.num_samples, info.initial_params, method, thin,
                             warmup_steps, num_chains, k, cache))

\* sample, lines 171-174: build the initialisation function, call it per chain
sample_init(bound, info, kind, k, cache) ==
    IF kind \in {"NotImplementedError", "AttributeError"}
    THEN Outcome(bound, cache, [info EXCEPT !.outcome = kind])
    ELSE sample_dispatch(bound,
             [info EXCEPT !.init = kind,
                          !.initial_params =
                              [c \in 1..num_chains |-> init_fn(kind, k, c, cache)]],
             k, cache)

\* MCMCPosterior.sample(sample_shape, x) as call number k on an object whose
\* saved parameters are `cache`: the observation it binds, the parameters it
\* leaves saved, and a record of what it did.
sample(sample_shape, x, k, cache) ==
    sample_init(_x_else_default_x(x),
                [NoSample EXCEPT !.sample_shape = sample_shape, !.call = k,
                                 !.num_samples = numel(sample_shape)],
                _build_mcmc_init_fn(init_strategy_default, cache), k, cache)

\* "slice_np" in method (substring test), over the identifiers of Methods
ContainsSliceNp(m) == m \in {"slice_np", "slice_np_vectorized", "slice_np_custom"}

\* a method check that accepts the two slice_np identifiers only
init_check_exact(m) ==
    IF m \in {"slice", "hmc", "nuts", "slice_np", "slice_np_vectorized"} THEN "ok"
    ELSE "NotImplementedError"

\* the outcome of the method check of MCMCPosterior.__init__
init_check(m) ==
    IF m = "slice" THEN "ok"
    ELSE IF m \in {"hmc", "nuts"} THEN "ok"
    ELSE IF ContainsSliceNp(m) THEN "ok"
    ELSE "NotImplementedError"

NoMap ==
    [outcome |-> "none", x |-> None, init_method |-> "none", inits |-> "none",
     inits_x |-> None, ascent |-> FALSE, ascent_x |-> None, returned |-> None]

MapOutcome(bound, cache, nested, sinfo, best, info) ==
    [x_o |-> bound, cache |-> cache, nested |-> nested, sinfo |-> sinfo,
     map_ |-> best, info |-> info]

\* map, lines 417-427: gradient ascent from `inits` on the potential, which is
\* bound to `bound`; its best point is stored in map_ and returned
map_ascent(bound, cache, nested, sinfo, info, inits, inits_x) ==
    MapOutcome(bound, cache, nested, sinfo, bound,
        [info EXCEPT !.outcome = "ok", !.inits = inits, !.inits_x = inits_x,
                     !.ascent = TRUE, !.ascent_x = bound, !.returned = bound])

\* map, line 411: inits = self.sample((num_init_samples,)); s is what that
\* call did
map_posterior(info, s) ==
    IF s.info.outcome # "ok"
    THEN MapOutcome(s.x_o, s.cache, TRUE, s.info, map_,
                    [info EXCEPT !.outcome = s.info.outcome])
    ELSE map_ascent(s.x_o, s.cache, TRUE, s.info, info, "posterior", s.x_o)

\* MCMCPosterior.map(x, init_method, num_init_samples) on an object whose
\* saved parameters are `cache`, its nested sample call being call number k.
\* init_method "tensor" stands for a Tensor argument.
map(x, init_method, num_init_samples, k, cache) ==
    IF init_method = "posterior"
    THEN map_posterior([NoMap EXCEPT !.x = x, !.init_method = init_method],
                       sample(<<num_init_samples>>, None, k, cache))
    ELSE IF init_method = "prior"
    THEN map_ascent(_x_else_default_x(x), cache, FALSE, NoSample,
                    [NoMap EXCEPT !.x = x, !.init_method = init_method],
                    "prior", _x_else_default_x(x))
    ELSE MapOutcome(_x_else_default_x(x), cache, FALSE, NoSample, map_,
                    [NoMap EXCEPT !.x = x, !.init_method = init_method,
                                  !.outcome = "ValueError"])

\* ---------------------------------------------------- PosteriorPotential
\* parameter vectors, and the ones inside the prior's support
Theta == 0..3
PriorSupport == {1, 2}

Finite(v) == [finite |-> TRUE, v |-> v]
NegInf == [finite |-> FALSE, v |-> 0]

\* sbi.utils.sbiutils.within_support(prior, theta), per batch entry
within_support(theta) == [i \in 1..Len(theta) |-> theta[i] \in PriorSupport]

\* posterior_model.log_prob(theta, context=x_repeated), per batch entry; the
\* density network is defined (and finite) outside the prior's support too
posterior_model_log_prob(theta, x) ==
    [i \in 1..Len(theta) |-> Finite(0 - (theta[i] * 2 + (IF x = default_x THEN 0 ELSE 1)))]

\* torch.where(condition, a, b) with a batch a and a scalar b
torch_where(condition, a, b) ==
    [i \in 1..Len(condition) |-> IF condition[i] THEN a[i] ELSE b]

\* a potential that returns the model's log-probability unmasked
__call__unmasked(theta, x) == posterior_model_log_prob(theta, x)

\* PosteriorPotential.__call__(theta) with self.x_o = x
__call__(theta, x) ==
    LET posterior_log_prob == posterior_model_log_prob(theta, x)
        in_prior_support   == within_support(theta)
    IN  torch_where(in_prior_support, posterior_log_prob, NegInf)

NoPotential == [called |-> FALSE, theta |-> <<>>, out |-> <<>>]

RECURSIVE Batches(_)
Batches(n) ==
    IF n = 0 THEN {<<>>}
    ELSE LET S == Batches(n - 1)
         IN  S \cup {Append(b, t) : b \in {u \in S : Len(u) = n - 1}, t \in Theta}

\* ------------------------------------------------------------- actions
Init ==
    /\ constructed = "new"
    /\ method = None
    /\ thin = 1
    /\ warmup_steps = 0
    /\ num_chains = 1
    /\ init_strategy = None
    /\ _mcmc_method = None
    /\ _mcmc_init_params = Unset
    /\ x_o = None
    /\ map_ = None
    /\ calls = 0
    /\ lastSample = NoSample
    /\ lastMap = NoMap
    /\ lastPotential = NoPotential

\* MCMCPosterior.__init__(method, thin, warmup_steps, num_chains, init_strategy)
__init__ ==
    /\ constructed = "new"
    /\ \E m \in Methods, t \in 1..MaxThin, w \in 0..MaxWarmup,
          c \in 1..MaxChains, s \in InitStrategies :
          /\ method' = m
          /\ thin' = t
          /\ warmup_steps' = w
          /\ num_chains' = c
          /\ init_strategy' = s
          /\ constructed' = init_check(m)
    /\ UNCHANGED <<_mcmc_method, _mcmc_init_params, x_o, map_, calls,
                   lastSample, lastMap, lastPotential>>

\* MCMCPosterior.set_mcmc_method(method) and the mcmc_method property setter
set_mcmc_method ==
    /\ constructed = "ok"
    /\ \E m \in SetterMethods : _mcmc_method' = m
    /\ UNCHANGED <<constructed, config, _mcmc_init_params, x_o, map_, calls,
                   lastSample, lastMap, lastPotential>>

\* the state a sample call leaves behind
sample_effect(r) ==
    /\ x_o' = r.x_o
    /\ _mcmc_init_params' = r.cache
    /\ lastSample' = r.info

\* the state a map call leaves behind
map_effect(r) ==
    /\ x_o' = r.x_o
    /\ _mcmc_init_params' = r.cache
    /\ map_' = r.map_
    /\ lastMap' = r.info
    /\ lastSample' = r.sinfo
    /\ calls' = IF r.nested THEN calls + 1 ELSE calls

\* a call posterior.sample(sample_shape, x)
CallSample ==
    /\ constructed = "ok"
    /\ calls < MaxCalls
    /\ \E sample_shape \in Shapes, x \in XArgs :
          sample_effect(sample(sample_shape, x, calls + 1, _mcmc_init_params))
    /\ calls' = calls + 1
    /\ lastMap' = NoMap
    /\ UNCHANGED <<constructed, config, _mcmc_method, map_, lastPotential>>

\* a call posterior.map(x, init_method=..., num_init_samples=...)
CallMap ==
    /\ constructed = "ok"
    /\ calls < MaxCalls
    /\ \E x \in XArgs, init_method \in {"posterior", "prior", "tensor"},
          n \in 1..MaxInitSamples :
          map_effect(map(x, init_method, n, calls + 1, _mcmc_init_params))
    /\ UNCHANGED <<constructed, config, _mcmc_method, lastPotential>>

Next == __init__ \/ set_mcmc_method \/ CallSample \/ CallMap

Spec == Init /\ [][Next]_vars

\* Construction and sampling only.
NextSampling == __init__ \/ CallSample

SpecSampling == Init /\ [][NextSampling]_vars

\* The potential on its own: a PosteriorPotential bound to an observation,
\* evaluated on batches of parameter vectors.
InitPotential ==
    /\ constructed = "ok"
    /\ method = "slice_np"
    /\ thin = 1
    /\ warmup_steps = 0
    /\ num_chains = 1
    /\ init_strategy = "prior"
    /\ _mcmc_method = None
    /\ _mcmc_init_params = Unset
    /\ x_o \in Obs
    /\ map_ = None
    /\ calls = 0
    /\ lastSample = NoSample
    /\ lastMap = NoMap
    /\ lastPotential = NoPotential

\* a call potential_fn(theta)
CallPotential ==
    /\ x_o \in Obs
    /\ \E theta \in Batches(MaxBatch) :
          lastPotential' = [called |-> TRUE, theta |-> theta, out |-> __call__(theta, x_o)]
    /\ UNCHANGED <<constructed, config, _mcmc_method, _mcmc_init_params, x_o, map_,
                   calls, lastSample, lastMap>>

NextPotential == CallPotential

SpecPotential == InitPotential /\ [][NextPotential]_vars

\* ================================================================ claims
AllPositive(shape) == \A i \in 1..Len(shape) : shape[i] >= 1

ReturnsShape ==
    /\ lastSample.outcome = "ok"
    /\ lastSample.shape = lastSample.sample_shape \o <<dim>>
    /\ Len(lastSample.rows) = numel(lastSample.sample_shape)

\* C1 (as stated): for every sample_shape of non-negative integers and every
\* supported method, sample returns a tensor of shape sample_shape + (dim,)
\* holding numel(sample_shape) parameter vectors.
C1_AnyShape ==
    (lastSample.call > 0 /\ method \in SupportedMethods) => ReturnsShape

\* C1 (amended): for every sample_shape whose entries are all positive
\* (the empty tuple included) and every supported method, sample returns a
\* tensor of shape sample_shape + (dim,) holding numel(sample_shape) vectors.
C1_PositiveShape ==
    (lastSample.call > 0 /\ method \in SupportedMethods
        /\ AllPositive(lastSample.sample_shape)) => ReturnsShape

C1_Witness ==
    /\ lastSample.outcome = "ok"
    /\ lastSample.sample_shape = <<2, 2>>
    /\ lastSample.shape = <<2, 2, dim>>
    /\ Len(lastSample.rows) = 4

\* C2: with thin >= 1, warmup_steps >= 0, num_chains >= 1 and num_samples >= 1
\* every backend has at least num_samples rows before truncation, its final
\* assertion holds and it returns exactly num_samples rows.
C2_EnoughRows ==
    (lastSample.backend # "none" /\ lastSample.num_samples >= 1) =>
        /\ lastSample.available >= lastSample.num_samples
        /\ lastSample.outcome = "ok"
        /\ Len(lastSample.rows) = lastSample.num_samples

C2_Witness ==
    /\ lastSample.backend = "hmc"
    /\ lastSample.outcome = "ok"
    /\ thin = 2
    /\ num_chains = 2
    /\ lastSample.num_samples >= 1
    /\ lastSample.available > lastSample.num_samples

\* C3: on a posterior with init_strategy = "latest_sample", a sample call made
\* after an earlier sample call starts chain c from the state that call
\* retained for it, and a sample call with no earlier sample call fails.
C3_LatestSample ==
    [][(init_strategy = "latest_sample" /\ lastSample'.call = calls + 1) =>
          IF calls = 0
          THEN lastSample'.outcome \notin {"ok", "none"} /\ lastSample'.backend = "none"
          ELSE _mcmc_init_params # Unset =>
                  lastSample'.initial_params =
                      [c \in 1..num_chains |->
                          _mcmc_init_params[((c - 1) % Len(_mcmc_init_params)) + 1]]]_vars

\* C4 (as stated): for every method outside the supported set construction
\* succeeds, and a sample call raises NameError without running a backend.
C4_Deferred ==
    (constructed # "new" /\ method \notin SupportedMethods) =>
        /\ constructed = "ok"
        /\ lastSample.call > 0 =>
              (lastSample.outcome = "NameError" /\ lastSample.backend = "none")

\* C4 (amended): for a method outside the supported set, construction raises
\* NotImplementedError unless the identifier contains "slice_np"; for an
\* unsupported identifier containing "slice_np" construction succeeds and
\* every sample call raises NameError without running a backend.
C4_DeferredForSliceNp ==
    (constructed # "new" /\ method \notin SupportedMethods) =>
        IF ContainsSliceNp(method)
        THEN /\ constructed = "ok"
             /\ lastSample.call > 0 =>
                   (lastSample.outcome = "NameError" /\ lastSample.backend = "none")
        ELSE /\ constructed = "NotImplementedError"
             /\ lastSample = NoSample

C4_Witness ==
    /\ method = "slice_np_custom"
    /\ constructed = "ok"
    /\ lastSample.call > 0
    /\ lastSample.outcome = "NameError"

\* C5: on a posterior whose init_strategy is not prior, sir or latest_sample,
\* every sample call raises NotImplementedError before any chain is
\* initialised or run.
C5_UnknownStrategy ==
    (lastSample.call > 0 /\ init_strategy \notin {"prior", "sir", "latest_sample"}) =>
        /\ lastSample.outcome = "NotImplementedError"
        /\ lastSample.initial_params = <<>>
        /\ lastSample.backend = "none"

\* C6: the potential returns a batch as long as theta whose entry i is the
\* posterior model's log-probability of theta[i] inside the prior's support
\* and negative infinity (never a finite value) outside it.
C6_SupportMask ==
    lastPotential.called =>
        /\ Len(lastPotential.out) = Len(lastPotential.theta)
        /\ \A i \in 1..Len(lastPotential.theta) :
              IF lastPotential.theta[i] \in PriorSupport
              THEN lastPotential.out[i] =
                       posterior_model_log_prob(<<lastPotential.theta[i]>>, x_o)[1]
              ELSE lastPotential.out[i] = NegInf /\ ~lastPotential.out[i].finite

C6_Witness ==
    /\ lastPotential.called
    /\ \E i, j \in 1..Len(lastPotential.theta) :
          /\ lastPotential.theta[i] \in PriorSupport
          /\ lastPotential.out[i].finite
          /\ lastPotential.theta[j] \notin PriorSupport
          /\ lastPotential.out[j] = NegInf

\* C7: after set_mcmc_method(m), the next sample call dispatches to the
\* backend named by the most recent m (the value the getter returns).
C7_SetterSelectsBackend ==
    [][(_mcmc_method # None /\ lastSample'.call = calls + 1) =>
          lastSample'.backend = _mcmc_method]_vars

\* C8: map runs gradient ascent, stores its best point in map_ and returns
\* it, for init_method "posterior", "prior" and a tensor alike.
C8_ThreeInitMethods ==
    (lastMap.init_method # "none" /\ method \in SupportedMethods) =>
        /\ lastMap.outcome = "ok"
        /\ lastMap.ascent
        /\ lastMap.inits = lastMap.init_method
        /\ lastMap.returned = map_

\* C9: in map(x, init_method) with init_method "prior" or "posterior" and x
\* different from the default observation, the observation bound on the
\* potential when gradient ascent is invoked, and the one under which the
\* initial candidates were produced, is x.
C9_MapKeepsObservation ==
    (lastMap.ascent /\ lastMap.init_method \in {"prior", "posterior"}
        /\ lastMap.x # None /\ lastMap.x # default_x) =>
        /\ lastMap.ascent_x = lastMap.x
        /\ lastMap.inits_x = lastMap.x

\* C10: in the vectorized slice sampler path with thin = k and
\* warmup_steps = w each chain is run for w*k + ceil(num_samples*k/num_chains)
\* steps and keeps exactly the positions w*k + j*k (j = 0, 1, ...) below the
\* trajectory length: none in [0, w*k), consecutive ones k apart.
C10_VectorizedThinning ==
    lastSample.backend = "slice_np_vectorized" =>
        LET k == thin
            w == warmup_steps
            T == w * k + ceil(lastSample.num_samples * k, num_chains)
        IN  /\ lastSample.steps = T
            /\ Len(lastSample.kept) = num_chains
            /\ \A c \in 1..num_chains :
                  LET row == lastSample.kept[c]
                  IN  /\ \A j \in 1..Len(row) : row[j].pos = w * k + (j - 1) * k
                      /\ {row[j].pos : j \in 1..Len(row)} =
                            {p \in 0..(T - 1) : p >= w * k /\ (p - w * k) % k = 0}
                      /\ \A j \in 1..Len(row) : row[j].chain = c /\ row[j].pos >= w * k

C10_Witness ==
    /\ lastSample.backend = "slice_np_vectorized"
    /\ lastSample.outcome = "ok"
    /\ thin = 2
    /\ warmup_steps = 1
    /\ Len(lastSample.kept[1]) >= 2
    /\ lastSample.kept[1][1].pos = 2
    /\ lastSample.kept[1][2].pos = 4

\* the warm-start cache holds num_chains rows, row c being the last kept
\* draw of chain c of the most recent sample call
CacheHoldsLastKept ==
    /\ Len(_mcmc_init_params) = num_chains
    /\ Len(lastSample.kept) = num_chains
    /\ \A c \in 1..num_chains :
          /\ Len(lastSample.kept[c]) >= 1
          /\ _mcmc_init_params[c] = lastSample.kept[c][Len(lastSample.kept[c])]
          /\ _mcmc_init_params[c].src = "chain"
          /\ _mcmc_init_params[c].call = lastSample.call
          /\ _mcmc_init_params[c].chain = c
          /\ _mcmc_init_params[c].pos =
                IF method = "slice_np"
                THEN (warmup_steps + ceil(lastSample.num_samples, num_chains)) * thin
                ELSE warmup_steps * thin
                         + (ceil(lastSample.num_samples, num_chains) - 1) * thin

\* C11 (as stated): after every sample call that returns successfully, for
\* every supported method, _mcmc_init_params holds exactly num_chains rows,
\* row c being the last kept state (before truncation) of chain c of that
\* call, never a state of an older call.
C11_EveryMethod ==
    (lastSample.outcome = "ok" /\ method \in SupportedMethods) => CacheHoldsLastKept

\* C11 (amended): after every sample call that returns successfully with
\* method slice_np or slice_np_vectorized, _mcmc_init_params holds exactly
\* num_chains rows, row c being the last kept state (after warmup discard and
\* thinning, before truncation) of chain c of that call, never a state of an
\* older call.
C11_SliceMethods ==
    (lastSample.outcome = "ok" /\ method \in {"slice_np", "slice_np_vectorized"})
        => CacheHoldsLastKept

C11_Witness ==
    /\ lastSample.outcome = "ok"
    /\ lastSample.call = 2
    /\ method = "slice_np_vectorized"
    /\ num_chains >= 2
    /\ Len(_mcmc_init_params) = num_chains
    /\ _mcmc_init_params[num_chains].call = 2
    /\ \A i \in 1..Len(lastSample.rows) :
          lastSample.rows[i] # _mcmc_init_params[num_chains]

\* C12: the rows _slice_np_mcmc returns are a chain-major prefix of the
\* per-chain kept draws: rows of chain i precede rows of chain j for i < j,
\* each chain's rows keep their time order, chain j contributes a row only if
\* every chain i < j contributed all of its kept draws, so the rows dropped by
\* the truncation come from the highest-indexed chains.
C12_ChainMajorPrefix ==
    (lastSample.outcome = "ok" /\ lastSample.backend \in {"slice_np", "slice_np_vectorized"}) =>
        LET rows     == lastSample.rows
            kept     == lastSample.kept
            returned == {rows[i] : i \in 1..Len(rows)}
        IN  /\ \A i, j \in 1..Len(rows) :
                  i < j => \/ rows[i].chain < rows[j].chain
                           \/ rows[i].chain = rows[j].chain /\ rows[i].pos < rows[j].pos
            /\ \A i \in 1..Len(rows) :
                  \E t \in 1..Len(kept[rows[i].chain]) : kept[rows[i].chain][t] = rows[i]
            /\ \A c \in 1..Len(kept) :
                  (\E t \in 1..Len(kept[c]) : kept[c][t] \in returned) =>
                      /\ \A b \in 1..(c - 1) : \A t \in 1..Len(kept[b]) : kept[b][t] \in returned
                      /\ \A t, u \in 1..Len(kept[c]) :
                            (t < u /\ kept[c][u] \in returned) => kept[c][t] \in returned
            /\ \A c \in 1..Len(kept) : \A t \in 1..Len(kept[c]) :
                  kept[c][t] \notin returned =>
                      \A d \in (c + 1)..Len(kept) : \A u \in 1..Len(kept[d]) :
                          kept[d][u] \notin returned

C12_Witness ==
    /\ lastSample.outcome = "ok"
    /\ lastSample.backend = "slice_np"
    /\ num_chains = 3
    /\ lastSample.available = 6
    /\ Len(lastSample.rows) = 4
    /\ lastSample.rows[2].chain = 1
    /\ lastSample.rows[4].chain = 2
    /\ \A i \in 1..4 : lastSample.rows[i].chain # 3

====
